---- MODULE Spec2Model ----
(***************************************************************************)
(* Code Factory preflight gate: contract loader and structural validator   *)
(* (scripts/code_factory_contract.py) and the gate orchestrator            *)
(* (scripts/preflight_gate.py).                                            *)
(*                                                                         *)
(* Python values are modelled as tagged records [k |-> kind, v |-> value]: *)
(* a dict is the sequence of its <<key, value>> pairs in insertion order,  *)
(* a list is a sequence, a str is a TLA+ string.  The characters of the    *)
(* path and glob strings are given by the table Chars, so that fnmatch and *)
(* sorted() are computed from the characters and not assumed.              *)
(*                                                                         *)
(* Left out: the timestamp and the path fields of the report, the stdout   *)
(* and stderr tails of a check, and a failure of the report write itself.  *)
(***************************************************************************)
EXTENDS Integers, Sequences, FiniteSets, TLC

\* ------------------------------------------------------------------ bounds
\* The longest --changed-file list given on the command line.
MaxArgs == 2
\* The most risk tiers in a generated contract.
MaxTiers == 2
\* The most docs-drift rules in a generated contract.
MaxRules == 1
\* The longest changed-file list handed to a direct call of a function.
MaxCalls == 2

\* ----------------------------------------------------------------- strings
\* The characters of every path, glob and document name of the model.
Chars ==
    ("src/a.py"    :> <<"s","r","c","/","a",".","p","y">>) @@
    ("api/r.py"    :> <<"a","p","i","/","r",".","p","y">>) @@
    ("docs/api.md" :> <<"d","o","c","s","/","a","p","i",".","m","d">>) @@
    ("README.md"   :> <<"R","E","A","D","M","E",".","m","d">>) @@
    ("src/*"       :> <<"s","r","c","/","*">>) @@
    ("*.py"        :> <<"*",".","p","y">>) @@
    ("a?i/*"       :> <<"a","?","i","/","*">>) @@
    ("docs/*"      :> <<"d","o","c","s","/","*">>) @@
    ("ruff"        :> <<"r","u","f","f">>) @@
    (" ruff "      :> <<" ","r","u","f","f"," ">>) @@
    ("pytest"      :> <<"p","y","t","e","s","t">>) @@
    ("review"      :> <<"r","e","v","i","e","w">>) @@
    ("  "          :> <<" "," ">>) @@
    (""            :> <<>>)

\* Code points of the characters above (Python compares str by code point).
CharOrd ==
    ("*" :> 42) @@ ("." :> 46) @@ ("/" :> 47) @@ ("?" :> 63) @@
    ("A" :> 65) @@ ("D" :> 68) @@ ("E" :> 69) @@ ("M" :> 77) @@ ("R" :> 82) @@
    ("a" :> 97) @@ ("c" :> 99) @@ ("d" :> 100) @@ ("i" :> 105) @@
    ("m" :> 109) @@ ("o" :> 111) @@ ("p" :> 112) @@ ("r" :> 114) @@
    ("s" :> 115) @@ ("y" :> 121)

RECURSIVE SeqLess(_, _)
\* str.__lt__ on the characters: lexicographic by code point.
SeqLess(a, b) ==
    IF b = <<>> THEN FALSE
    ELSE IF a = <<>> THEN TRUE
    ELSE IF Head(a) = Head(b) THEN SeqLess(Tail(a), Tail(b))
    ELSE CharOrd[Head(a)] < CharOrd[Head(b)]

StrLess(s, t) == SeqLess(Chars[s], Chars[t])

RECURSIVE SortedSeq(_)
\* sorted(S) for a set S of strings.
SortedSeq(S) ==
    IF S = {} THEN <<>>
    ELSE LET m == CHOOSE x \in S : \A y \in S \ {x} : StrLess(x, y)
         IN  <<m>> \o SortedSeq(S \ {m})

Range(s) == {s[i] : i \in DOMAIN s}

\* sorted(set(lst))
SortedSet(lst) == SortedSeq(Range(lst))

RECURSIVE GlobMatch(_, _)
\* The regular expression fnmatch.translate builds, matched against the whole
\* name: '*' is '.*', '?' is '.', any other character is itself ('/' is an
\* ordinary character).  Patterns of the model hold no '[' class.
GlobMatch(n, p) ==
    IF p = <<>> THEN n = <<>>
    ELSE IF Head(p) = "*"
         THEN GlobMatch(n, Tail(p)) \/ (n # <<>> /\ GlobMatch(Tail(n), p))
         ELSE /\ n # <<>>
              /\ (Head(p) = "?" \/ Head(p) = Head(n))
              /\ GlobMatch(Tail(n), Tail(p))

\* fnmatch.fnmatch(name, pat); os.path.normcase is the identity on POSIX.
fnmatch(name, pat) == GlobMatch(Chars[name], Chars[pat])

RECURSIVE LStrip(_)
LStrip(cs) == IF cs # <<>> /\ Head(cs) = " " THEN LStrip(Tail(cs)) ELSE cs

RECURSIVE RStrip(_)
RStrip(cs) ==
    IF cs # <<>> /\ cs[Len(cs)] = " " THEN RStrip(SubSeq(cs, 1, Len(cs) - 1)) ELSE cs

\* str.strip(): the string without its leading and trailing whitespace.
Strip(str) == CHOOSE t \in DOMAIN Chars : Chars[t] = RStrip(LStrip(Chars[str]))

\* ------------------------------------------------------------ Python values
JStr(s)  == [k |-> "str",  v |-> s]
JInt(n)  == [k |-> "int",  v |-> n]
JBool(b) == [k |-> "bool", v |-> b]
JList(s) == [k |-> "list", v |-> s]
JDict(s) == [k |-> "dict", v |-> s]
None     == [k |-> "NoneType", v |-> 0]

\* key in d
HasKey(d, key) == \E i \in DOMAIN d.v : d.v[i][1] = key

\* d.get(key, default)
Get(d, key, default) ==
    IF HasKey(d, key)
    THEN d.v[CHOOSE i \in DOMAIN d.v : d.v[i][1] = key][2]
    ELSE default

\* The str items of a list value, as a sequence of strings.
StrItems(lst) == [i \in DOMAIN lst.v |-> lst.v[i].v]

\* ------------------------------------------------------ resolver and drift
RECURSIVE AppendNew_NoDedupe(_, _)
\* AppendNew without the "not in checks" test.
AppendNew_NoDedupe(checks, reqs) ==
    IF reqs = <<>> THEN checks
    ELSE AppendNew_NoDedupe(Append(checks, Head(reqs)), Tail(reqs))

RECURSIVE AppendNew(_, _)
\* for check in required_checks: if check not in checks: checks.append(check)
AppendNew(checks, reqs) ==
    IF reqs = <<>> THEN checks
    ELSE AppendNew(IF Head(reqs) \in Range(checks) THEN checks
                   ELSE Append(checks, Head(reqs)),
                   Tail(reqs))

\* ScanGlobs with the break outside the if: only the first glob is tried.
ScanGlobs_FirstGlobOnly(checks, tier, changed, g) ==
    LET globs == StrItems(Get(tier, "path_globs", JList(<<>>)))
    IN  IF g > Len(globs) THEN checks
        ELSE IF fnmatch(changed, globs[g])
             THEN AppendNew(checks,
                            StrItems(Get(tier, "required_checks", JList(<<>>))))
             ELSE checks

RECURSIVE ScanGlobs(_, _, _, _)
\* for path_glob in tier.get("path_globs", []): the first glob that matches
\* appends the tier's checks and breaks.
ScanGlobs(checks, tier, changed, g) ==
    LET globs == StrItems(Get(tier, "path_globs", JList(<<>>)))
    IN  IF g > Len(globs) THEN checks
        ELSE IF fnmatch(changed, globs[g])
             THEN AppendNew(checks,
                            StrItems(Get(tier, "required_checks", JList(<<>>))))
             ELSE ScanGlobs(checks, tier, changed, g + 1)

RECURSIVE ScanTiers(_, _, _, _)
\* for tier in contract.get("risk_tiers", [])
ScanTiers(checks, tiers, changed, t) ==
    IF t > Len(tiers) THEN checks
    ELSE ScanTiers(ScanGlobs(checks, tiers[t], changed, 1), tiers, changed, t + 1)

RECURSIVE ScanFiles(_, _, _, _)
\* for changed in changed_files
ScanFiles(checks, contract, changed_files, f) ==
    IF f > Len(changed_files) THEN checks
    ELSE ScanFiles(ScanTiers(checks, Get(contract, "risk_tiers", JList(<<>>)).v,
                             changed_files[f], 1),
                   contract, changed_files, f + 1)

\* The resolver starting from an empty list.
required_checks_for_files_NoSentinel(contract, changed_files) ==
    ScanFiles(<<>>, contract, changed_files, 1)

required_checks_for_files(contract, changed_files) ==
    ScanFiles(<<"contract_validate">>, contract, changed_files, 1)

\* [doc for doc in must_update if doc not in changed_set]
RECURSIVE Missing(_, _)
Missing(must_update, changed_set) ==
    IF must_update = <<>> THEN <<>>
    ELSE (IF Head(must_update) \in changed_set THEN <<>> ELSE <<Head(must_update)>>)
         \o Missing(Tail(must_update), changed_set)

\* triggered = any(fnmatch.fnmatch(path, path_glob) for path in changed_files)
Triggered(rule, changed_files) ==
    \E i \in DOMAIN changed_files :
        fnmatch(changed_files[i], Get(rule, "path_glob", JStr("")).v)

RECURSIVE ScanRules(_, _, _, _)
\* for rule in contract.get("docs_drift_rules", [])
ScanRules(violations, rules, changed_files, r) ==
    IF r > Len(rules) THEN violations
    ELSE LET rule    == rules[r]
             missing == Missing(StrItems(Get(rule, "must_update", JList(<<>>))),
                                Range(changed_files))
         IN  ScanRules(IF Triggered(rule, changed_files) /\ missing # <<>>
                       THEN Append(violations,
                                   [path_glob    |-> Get(rule, "path_glob", JStr("")).v,
                                    missing      |-> missing,
                                    human_notify |-> Get(rule, "human_notify", JBool(FALSE)).v])
                       ELSE violations,
                       rules, changed_files, r + 1)

docs_drift_violations(contract, changed_files) ==
    ScanRules(<<>>, Get(contract, "docs_drift_rules", JList(<<>>)).v, changed_files, 1)

\* -------------------------------------------------------- schema validator
\* The outcome of a validation: no exception, or the ContractValidationError
\* raised (the path it names, its kind and the names in its message).
NoError == [ok |-> TRUE, path |-> <<>>, err |-> "", what |-> <<>>]
ContractValidationError(path, err, what) ==
    [ok |-> FALSE, path |-> path, err |-> err, what |-> what]

\* The keys of the mapping in _type_name.
SchemaTypes == {"object", "array", "string", "integer", "number", "boolean"}

\* isinstance(data, _type_name(expected)); bool is a subclass of int.
IsInstance(data, expected) ==
    CASE expected = "object"  -> data.k = "dict"
      [] expected = "array"   -> data.k = "list"
      [] expected = "string"  -> data.k = "str"
      [] expected = "integer" -> data.k \in {"int", "bool"}
      [] expected = "number"  -> data.k \in {"int", "bool", "float"}
      [] expected = "boolean" -> data.k = "bool"

\* isinstance(data, (int, float))
IsNumeric(data) == data.k \in {"int", "bool", "float"}

\* The numeric value of an int, float or bool (True is 1, False is 0).
Num(data) == IF data.k = "bool" THEN (IF data.v THEN 1 ELSE 0) ELSE data.v

\* a == b for Python values: numbers compare by value across int/bool/float.
PyEq(a, b) ==
    IF IsNumeric(a) /\ IsNumeric(b) THEN Num(a) = Num(b)
    ELSE a.k = b.k /\ a.v = b.v

\* f"[{idx}]" for the 0-based index of the idx-th element.
IdxSeg == <<"[0]", "[1]", "[2]", "[3]", "[4]", "[5]">>

RECURSIVE FirstMissing_Last(_, _, _)
\* The required loop reporting the last absent key instead of the first.
FirstMissing_Last(data, required, path) ==
    IF required = <<>> THEN NoError
    ELSE LET rest == FirstMissing_Last(data, Tail(required), path)
         IN  IF ~rest.ok THEN rest
             ELSE IF ~HasKey(data, Head(required))
             THEN ContractValidationError(path, "missing_required_key", <<Head(required)>>)
             ELSE NoError

RECURSIVE FirstMissing(_, _, _)
\* for key in required: if key not in data: raise
FirstMissing(data, required, path) ==
    IF required = <<>> THEN NoError
    ELSE IF ~HasKey(data, Head(required))
         THEN ContractValidationError(path, "missing_required_key", <<Head(required)>>)
         ELSE FirstMissing(data, Tail(required), path)

RECURSIVE _validate_against_schema(_, _, _)
RECURSIVE ValidateItems(_, _, _, _)
RECURSIVE ValidateElems(_, _, _, _)

\* for key, value in data.items(): validate against properties[key], else
\* against additionalProperties when that is a dict.
ValidateItems(data, schema, path, i) ==
    IF i > Len(data.v) THEN NoError
    ELSE LET key        == data.v[i][1]
             value      == data.v[i][2]
             properties == Get(schema, "properties", JDict(<<>>))
             additional == Get(schema, "additionalProperties", None)
             res == IF HasKey(properties, key)
                    THEN _validate_against_schema(value, Get(properties, key, None),
                                                  Append(path, key))
                    ELSE IF additional.k = "dict"
                         THEN _validate_against_schema(value, additional,
                                                       Append(path, key))
                         ELSE NoError
         IN  IF ~res.ok THEN res ELSE ValidateItems(data, schema, path, i + 1)

\* for idx, value in enumerate(data): validate against items
ValidateElems(data, item_schema, path, i) ==
    IF i > Len(data.v) THEN NoError
    ELSE LET res == _validate_against_schema(data.v[i], item_schema,
                                             Append(path, IdxSeg[i]))
         IN  IF ~res.ok THEN res ELSE ValidateElems(data, item_schema, path, i + 1)

\* The type check without the bool test of lines 38-39.
TypeCheck_BoolIsInt(data, schema, path) ==
    LET expected_type == Get(schema, "type", None)
    IN  IF expected_type.k = "str" /\ expected_type.v # ""
        THEN IF expected_type.v \notin SchemaTypes
             THEN ContractValidationError(<<>>, "unsupported_schema_type",
                                          <<expected_type.v>>)
             ELSE IF ~IsInstance(data, expected_type.v)
             THEN ContractValidationError(path, "expected_type",
                                          <<expected_type.v, data.k>>)
             ELSE NoError
        ELSE NoError

\* lines 31-39: the type check of one node.
TypeCheck(data, schema, path) ==
    LET expected_type == Get(schema, "type", None)
    IN  IF expected_type.k = "str" /\ expected_type.v # ""
        THEN IF expected_type.v \notin SchemaTypes
             THEN ContractValidationError(<<>>, "unsupported_schema_type",
                                          <<expected_type.v>>)
             ELSE IF ~IsInstance(data, expected_type.v)
             THEN ContractValidationError(path, "expected_type",
                                          <<expected_type.v, data.k>>)
             ELSE IF expected_type.v = "integer" /\ data.k = "bool"
             THEN ContractValidationError(path, "expected_type",
                                          <<"integer", "boolean">>)
             ELSE NoError
        ELSE NoError

\* lines 41-45
EnumCheck(data, schema, path) ==
    LET enum_values == Get(schema, "enum", None)
    IN  IF enum_values.k # "NoneType"
           /\ ~\E i \in DOMAIN enum_values.v : PyEq(enum_values.v[i], data)
        THEN ContractValidationError(path, "not_in_enum", <<>>)
        ELSE NoError

\* lines 47-51
MinimumCheck(data, schema, path) ==
    IF HasKey(schema, "minimum") /\ IsNumeric(data)
       /\ Num(data) < Num(Get(schema, "minimum", None))
    THEN ContractValidationError(path, "lower_than_minimum", <<>>)
    ELSE NoError

\* lines 53-57
RequiredCheck(data, schema, path) ==
    IF data.k = "dict"
    THEN FirstMissing(data, StrItems(Get(schema, "required", JList(<<>>))), path)
    ELSE NoError

\* lines 59-67
PropertiesCheck(data, schema, path) ==
    IF data.k = "dict" THEN ValidateItems(data, schema, path, 1) ELSE NoError

\* lines 69-74
MinItemsCheck(data, schema, path) ==
    LET min_items == Get(schema, "minItems", None)
    IN  IF data.k = "list" /\ min_items.k # "NoneType" /\ Len(data.v) < Num(min_items)
        THEN ContractValidationError(path, "too_few_items", <<>>)
        ELSE NoError

\* lines 76-79
ItemsCheck(data, schema, path) ==
    LET item_schema == Get(schema, "items", None)
    IN  IF data.k = "list" /\ item_schema.k = "dict"
        THEN ValidateElems(data, item_schema, path, 1)
        ELSE NoError

\* The validator descending into the values of a dict before it looks for the
\* required keys.
_validate_against_schema_ChildrenFirst(data, schema, path) ==
    LET typeRes == TypeCheck(data, schema, path)
        enumRes == EnumCheck(data, schema, path)
        minRes  == MinimumCheck(data, schema, path)
        reqRes  == RequiredCheck(data, schema, path)
        propRes == PropertiesCheck(data, schema, path)
        lenRes  == MinItemsCheck(data, schema, path)
        elemRes == ItemsCheck(data, schema, path)
    IN  IF ~typeRes.ok THEN typeRes
        ELSE IF ~enumRes.ok THEN enumRes
        ELSE IF ~minRes.ok THEN minRes
        ELSE IF ~propRes.ok THEN propRes
        ELSE IF ~reqRes.ok THEN reqRes
        ELSE IF ~lenRes.ok THEN lenRes
        ELSE elemRes

_validate_against_schema(data, schema, path) ==
    LET typeRes == TypeCheck(data, schema, path)
        enumRes == EnumCheck(data, schema, path)
        minRes  == MinimumCheck(data, schema, path)
        reqRes  == RequiredCheck(data, schema, path)
        propRes == PropertiesCheck(data, schema, path)
        lenRes  == MinItemsCheck(data, schema, path)
        elemRes == ItemsCheck(data, schema, path)
    IN  IF ~typeRes.ok THEN typeRes
        ELSE IF ~enumRes.ok THEN enumRes
        ELSE IF ~minRes.ok THEN minRes
        ELSE IF ~reqRes.ok THEN reqRes
        ELSE IF ~propRes.ok THEN propRes
        ELSE IF ~lenRes.ok THEN lenRes
        ELSE elemRes

\* ------------------------------------------------------------------ loader
\* A file on disk: its text parses to the value doc (st = "json"), is not
\* valid JSON (st = "invalid", json.loads raises JSONDecodeError), or cannot
\* be read (st = "unreadable", read_text raises OSError).
File(st, doc) == [st |-> st, doc |-> doc]

\* What raising means for the caller: the value returned, a
\* ContractValidationError, or another exception.
Returned(value) == [out |-> "return", value |-> value, error |-> NoError]
RaisedCVE(error) == [out |-> "ContractValidationError", value |-> None, error |-> error]
RaisedOther(name) == [out |-> name, value |-> None, error |-> NoError]

_read_json(file) ==
    CASE file.st = "json"       -> Returned(file.doc)
      [] file.st = "invalid"    ->
            RaisedCVE(ContractValidationError(<<>>, "invalid_json", <<>>))
      [] file.st = "unreadable" -> RaisedOther("OSError")

load_contract(contract_file, schema_file) ==
    LET contract_raw == _read_json(contract_file)
        schema_raw   == _read_json(schema_file)
    IN  IF contract_raw.out # "return" THEN contract_raw
        ELSE IF schema_raw.out # "return" THEN schema_raw
        ELSE IF contract_raw.value.k # "dict"
        THEN RaisedCVE(ContractValidationError(<<>>, "contract_root_not_object", <<>>))
        ELSE IF schema_raw.value.k # "dict"
        THEN RaisedCVE(ContractValidationError(<<>>, "schema_root_not_object", <<>>))
        ELSE LET res == _validate_against_schema(contract_raw.value,
                                                 schema_raw.value, <<"$">>)
             IN  IF res.ok THEN Returned(contract_raw.value) ELSE RaisedCVE(res)

\* -------------------------------------------------------------- the inputs
\* The schema document the contracts are written against.
StringSchema == JDict(<< <<"type", JStr("string")>> >>)
StringListSchema == JDict(<< <<"type", JStr("array")>>, <<"items", StringSchema>> >>)

TierSchema ==
    JDict(<< <<"type", JStr("object")>>,
             <<"required", JList(<<JStr("path_globs"), JStr("required_checks")>>)>>,
             <<"properties",
               JDict(<< <<"path_globs",
                          JDict(<< <<"type", JStr("array")>>,
                                   <<"minItems", JInt(1)>>,
                                   <<"items", StringSchema>> >>)>>,
                        <<"required_checks", StringListSchema>> >>)>> >>)

CheckSchema ==
    JDict(<< <<"type", JStr("object")>>,
             <<"properties",
               JDict(<< <<"command", StringSchema>>,
                        <<"timeout_sec",
                          JDict(<< <<"type", JStr("integer")>>,
                                   <<"minimum", JInt(1)>> >>)>> >>)>> >>)

RuleSchema ==
    JDict(<< <<"type", JStr("object")>>,
             <<"required", JList(<<JStr("path_glob"), JStr("must_update")>>)>>,
             <<"properties",
               JDict(<< <<"path_glob", StringSchema>>,
                        <<"must_update", StringListSchema>>,
                        <<"human_notify", JDict(<< <<"type", JStr("boolean")>> >>)>> >>)>> >>)

ContractSchema ==
    JDict(<< <<"type", JStr("object")>>,
             <<"required", JList(<<JStr("schema_version"), JStr("risk_tiers"),
                                   JStr("checks")>>)>>,
             <<"properties",
               JDict(<< <<"schema_version",
                          JDict(<< <<"type", JStr("string")>>,
                                   <<"enum", JList(<<JStr("1")>>)>> >>)>>,
                        <<"risk_tiers",
                          JDict(<< <<"type", JStr("array")>>,
                                   <<"items", TierSchema>> >>)>>,
                        <<"checks",
                          JDict(<< <<"type", JStr("object")>>,
                                   <<"additionalProperties", CheckSchema>> >>)>>,
                        <<"docs_drift_rules",
                          JDict(<< <<"type", JStr("array")>>,
                                   <<"items", RuleSchema>> >>)>> >>)>> >>)

\* The same schema with a node of a type _type_name does not know.
OddSchema ==
    JDict(<< <<"type", JStr("object")>>,
             <<"properties",
               JDict(<< <<"owner", JDict(<< <<"type", JStr("text")>> >>)>> >>)>> >>)

Tier(globs, checks) ==
    JDict(<< <<"path_globs", JList([i \in DOMAIN globs |-> JStr(globs[i])])>>,
             <<"required_checks", JList([i \in DOMAIN checks |-> JStr(checks[i])])>> >>)

TierPool ==
    { Tier(<<"src/*", "*.py">>, <<"lint", "test">>),
      Tier(<<"docs/*">>, <<"contract_validate", "reviewer_subagent", "lint">>),
      Tier(<<"a?i/*">>, <<"test", "ghost">>) }

Rule(glob, docs) ==
    JDict(<< <<"path_glob", JStr(glob)>>,
             <<"must_update", JList([i \in DOMAIN docs |-> JStr(docs[i])])>> >>)

RuleNotify(glob, docs) ==
    JDict(<< <<"path_glob", JStr(glob)>>,
             <<"must_update", JList([i \in DOMAIN docs |-> JStr(docs[i])])>>,
             <<"human_notify", JBool(TRUE)>> >>)

RulePool ==
    { RuleNotify("a?i/*", <<"docs/api.md">>),
      Rule("*.py", <<"README.md", "docs/api.md", "README.md">>) }

Command(c) == JDict(<< <<"command", JStr(c)>> >>)

ChecksPool ==
    { JDict(<< <<"lint", Command(" ruff ")>>,
               <<"test", JDict(<< <<"command", JStr("pytest")>>,
                                  <<"timeout_sec", JInt(60)>> >>)>> >>),
      JDict(<< <<"lint", Command("  ")>>,
               <<"test", JDict(<< <<"timeout_sec", JInt(60)>> >>)>>,
               <<"reviewer_subagent", Command("review")>> >>) }

\* All sequences over S of length at most n.
SeqsUpTo(S, n) == UNION {[1..m -> S] : m \in 0..n}

\* The contract documents that conform to ContractSchema; one without drift
\* rules carries no "docs_drift_rules" key.
Contract(tiers, checks, rules) ==
    JDict(<< <<"schema_version", JStr("1")>>,
             <<"risk_tiers", JList(tiers)>>,
             <<"checks", checks>> >>
          \o (IF rules = <<>> THEN <<>>
              ELSE << <<"docs_drift_rules", JList(rules)>> >>))

Contracts ==
    { Contract(t, c, r) : t \in SeqsUpTo(TierPool, MaxTiers), c \in ChecksPool,
                          r \in SeqsUpTo(RulePool, MaxRules) }

\* Contract documents that do not conform: a missing key, a schema_version
\* outside the enum, a tier without globs, a boolean timeout, and a root that
\* is a list.
BadContracts ==
    { JDict(<< <<"schema_version", JStr("1")>>, <<"risk_tiers", JList(<<>>)>> >>),
      JDict(<< <<"schema_version", JStr("2")>>, <<"risk_tiers", JList(<<>>)>>,
               <<"checks", JDict(<<>>)>> >>),
      JDict(<< <<"schema_version", JStr("1")>>,
               <<"risk_tiers", JList(<<Tier(<<>>, <<"lint">>)>>)>>,
               <<"checks", JDict(<<>>)>> >>),
      JDict(<< <<"schema_version", JStr("1")>>, <<"risk_tiers", JList(<<>>)>>,
               <<"checks", JDict(<< <<"lint",
                    JDict(<< <<"command", JStr("ruff")>>,
                             <<"timeout_sec", JBool(TRUE)>> >>)>> >>)>> >>),
      JList(<<>>) }

\* Conforming contracts of one tier that also carry a key the schema of the
\* contract does not describe.
Owned(c) == JDict(c.v \o << <<"owner", JStr("core")>> >>)
OwnedContracts ==
    { Owned(Contract(<<t>>, c, <<>>)) : t \in TierPool, c \in ChecksPool }

Files == {"src/a.py", "api/r.py", "docs/api.md"}

ContractFiles ==
    {File("json", c) : c \in Contracts \cup OwnedContracts \cup BadContracts}
    \cup {File("invalid", None), File("unreadable", None)}

SchemaFiles ==
    {File("json", ContractSchema), File("json", OddSchema), File("json", JList(<<>>)),
     File("invalid", None), File("unreadable", None)}

\* The contract files tried with a schema file other than ContractSchema: the
\* ones that do not load, and the contracts of at most one tier and no rule.
PlainContractFiles ==
    {File("json", c) : c \in BadContracts \cup OwnedContracts}
    \cup {File("json", Contract(t, c, <<>>)) :
             t \in {<<>>} \cup {<<x>> : x \in TierPool}, c \in ChecksPool}
    \cup {File("invalid", None), File("unreadable", None)}

\* How the command of a check ends: with an exit code, or not within
\* timeout_sec.
Exited(code) == [kind |-> "exit", code |-> code]
TimedOut == [kind |-> "timeout", code |-> 0]
Outcomes == {Exited(0), Exited(1), Exited(2), TimedOut}

\* ---------------------------------------------------------- the gate's state
VARIABLES
    pc,             \* where main() is
    contract_file,  \* the file at --contract
    schema_file,    \* the file at --schema
    changed_files,
    contract,       \* the value load_contract returned
    required,
    idx,            \* position of the loop over required (1-based)
    report,         \* the report dict being built
    written,        \* the texts written to --report, in order
    spawned,        \* the subprocess.run calls made for checks and how each ended
    raised,         \* the exception that left main(), "" when none
    exit_code,      \* <<>> while running, <<code>> once the process has ended
    call            \* a direct call of the resolver or the drift detector

vars == <<pc, contract_file, schema_file, changed_files, contract, required,
          idx, report, written, spawned, raised, exit_code, call>>

\* One entry of report["checks"]; reason is "" where the code sets none.
Check(name, status, reason, command, code) ==
    [name |-> name, status |-> status, reason |-> reason, command |-> command,
     exit_code |-> code]

\* The report created with status "passed".
NewReport_Passed(files) ==
    [changed_files   |-> files,
     required_checks |-> <<>>,
     checks          |-> <<>>,
     docs_drift      |-> [status |-> "passed", violations |-> <<>>],
     status          |-> "passed"]

\* The report dict as main() creates it (lines 100-113).
NewReport(files) ==
    [changed_files   |-> files,
     required_checks |-> <<>>,
     checks          |-> <<>>,
     docs_drift      |-> [status |-> "passed", violations |-> <<>>],
     status          |-> "failed"]

NoCall == [fn |-> "", contract |-> None, files |-> <<>>, checks |-> <<>>,
           violations |-> <<>>, data |-> None, schema |-> None, error |-> NoError]

\* _run_check: what it returns or raises when the command, if one is run,
\* ends as `outcome`; spawn tells whether subprocess.run was called.
\* The command taken without strip().
RunCommand_NoStrip(check_def) == Get(check_def, "command", JStr("")).v

RunCommand(check_def) == Strip(Get(check_def, "command", JStr("")).v)
RunTimeout(check_def) == Num(Get(check_def, "timeout_sec", JInt(300)))

_run_check(check_name, check_def, outcome) ==
    LET command == RunCommand(check_def)
    IN  IF command = ""
        THEN Returned(Check(check_name, "failed", "missing_command", command, 127))
        ELSE IF outcome.kind = "timeout"
        THEN RaisedOther("TimeoutExpired")
        ELSE Returned(Check(check_name,
                            IF outcome.code = 0 THEN "passed" ELSE "failed",
                            "", command, outcome.code))

Spawns(check_def) == RunCommand(check_def) # ""

\* The aggregation without the docs-drift term.
OverallStatus_IgnoresDrift(rep) ==
    LET failed_checks == {i \in DOMAIN rep.checks : rep.checks[i].status = "failed"}
    IN  IF failed_checks = {} THEN "passed" ELSE "failed"

\* report["status"] (lines 178-180)
OverallStatus(rep) ==
    LET failed_checks == {i \in DOMAIN rep.checks : rep.checks[i].status = "failed"}
        docs_failed   == rep.docs_drift.status = "failed"
    IN  IF failed_checks = {} /\ ~docs_failed THEN "passed" ELSE "failed"

\* main() returning 0 whatever the status.
ExitStatus_AlwaysZero(ret) == IF ret.out = "return" THEN 0 ELSE 1

\* The exit status of the process: main()'s return value through SystemExit,
\* and 1 when an exception leaves main() (lines 187-188).
ExitStatus(ret) == IF ret.out = "return" THEN ret.value ELSE 1

GateInit ==
    /\ pc = "start"
    /\ contract_file \in ContractFiles
    /\ schema_file \in SchemaFiles
    /\ schema_file = File("json", ContractSchema) \/ contract_file \in PlainContractFiles
    /\ changed_files = <<>>
    /\ contract = None
    /\ required = <<>>
    /\ idx = 1
    /\ report = NewReport(<<>>)
    /\ written = <<>>
    /\ spawned = <<>>
    /\ raised = ""
    /\ exit_code = <<>>

Init == GateInit /\ call = NoCall

\* lines 92-113: changed_files = sorted(set(args.changed_file)) or the files
\* git reports (_discover_changed_files returns a sorted set of paths).
Begin ==
    /\ pc = "start"
    /\ \E args \in SeqsUpTo(Files, MaxArgs), discovered \in SUBSET Files :
          /\ changed_files' = IF SortedSet(args) # <<>> THEN SortedSet(args)
                              ELSE SortedSeq(discovered)
          /\ SortedSet(args) # <<>> => discovered = {}
    /\ report' = NewReport(changed_files')
    /\ pc' = "load"
    /\ UNCHANGED <<contract_file, schema_file, contract, required, idx,
                   written, spawned, raised, exit_code, call>>

\* A successful load that already marks the report as passed.
ContractLoaded_MarksPassed ==
    /\ pc = "load"
    /\ LET res == load_contract(contract_file, schema_file)
       IN  /\ res.out = "return"
           /\ contract' = res.value
    /\ report' = [report EXCEPT !.status = "passed", !.checks =
                     Append(@, Check("contract_validate", "passed", "",
                                     "schema-validate", 0))]
    /\ pc' = "resolve"
    /\ UNCHANGED <<contract_file, schema_file, changed_files, required, idx,
                   written, spawned, raised, exit_code, call>>

\* lines 115-124: load_contract returned.
ContractLoaded ==
    /\ pc = "load"
    /\ LET res == load_contract(contract_file, schema_file)
       IN  /\ res.out = "return"
           /\ contract' = res.value
    /\ report' = [report EXCEPT !.checks =
                     Append(@, Check("contract_validate", "passed", "",
                                     "schema-validate", 0))]
    /\ pc' = "resolve"
    /\ UNCHANGED <<contract_file, schema_file, changed_files, required, idx,
                   written, spawned, raised, exit_code, call>>

\* lines 125-137: load_contract raised ContractValidationError.
ContractRejected ==
    /\ pc = "load"
    /\ load_contract(contract_file, schema_file).out = "ContractValidationError"
    /\ report' = [report EXCEPT !.checks =
                     Append(@, Check("contract_validate", "failed", "",
                                     "schema-validate", 1))]
    /\ written' = Append(written, report')
    /\ exit_code' = <<ExitStatus(Returned(1))>>
    /\ pc' = "done"
    /\ UNCHANGED <<contract_file, schema_file, changed_files, contract,
                   required, idx, spawned, raised, call>>

\* line 116: load_contract raised an exception main() does not catch.
LoadRaised ==
    /\ pc = "load"
    /\ LET res == load_contract(contract_file, schema_file)
       IN  /\ res.out \notin {"return", "ContractValidationError"}
           /\ raised' = res.out
           /\ exit_code' = <<ExitStatus(res)>>
    /\ pc' = "done"
    /\ UNCHANGED <<contract_file, schema_file, changed_files, contract,
                   required, idx, report, written, spawned, call>>

\* lines 139-140
Resolve ==
    /\ pc = "resolve"
    /\ required' = required_checks_for_files(contract, changed_files)
    /\ report' = [report EXCEPT !.required_checks = required']
    /\ idx' = 1
    /\ pc' = "loop"
    /\ UNCHANGED <<contract_file, schema_file, changed_files, contract,
                   written, spawned, raised, exit_code, call>>

InLoop == pc = "loop" /\ idx <= Len(required)

\* contract.get("checks", {}).get(check)
CheckDef(check) == Get(Get(contract, "checks", JDict(<<>>)), check, None)

\* lines 143-144
SkipSentinel ==
    /\ InLoop
    /\ required[idx] = "contract_validate"
    /\ idx' = idx + 1
    /\ UNCHANGED <<pc, contract_file, schema_file, changed_files, contract,
                   required, report, written, spawned, raised, exit_code, call>>

\* The reserved name handled like any other check once the checks mapping
\* defines it: its command is run and the outcome recorded.
Defer_RunsDefined ==
    /\ InLoop
    /\ required[idx] = "reviewer_subagent"
    /\ LET check_def == CheckDef(required[idx])
       IN  IF check_def.k = "dict" /\ Spawns(check_def)
           THEN /\ report' = [report EXCEPT !.checks =
                                 Append(@, _run_check(required[idx], check_def,
                                                      Exited(0)).value)]
                /\ spawned' = Append(spawned,
                                     [name    |-> required[idx],
                                      command |-> RunCommand(check_def),
                                      timeout |-> RunTimeout(check_def),
                                      ended   |-> Exited(0)])
           ELSE /\ report' = [report EXCEPT !.checks =
                                 Append(@, Check("reviewer_subagent", "deferred", "",
                                                 "handled_by_factory_loop", 0))]
                /\ spawned' = spawned
    /\ idx' = idx + 1
    /\ UNCHANGED <<pc, contract_file, schema_file, changed_files, contract,
                   required, written, raised, exit_code, call>>

\* lines 145-154
Defer ==
    /\ InLoop
    /\ required[idx] = "reviewer_subagent"
    /\ report' = [report EXCEPT !.checks =
                     Append(@, Check("reviewer_subagent", "deferred", "",
                                     "handled_by_factory_loop", 0))]
    /\ idx' = idx + 1
    /\ UNCHANGED <<pc, contract_file, schema_file, changed_files, contract,
                   required, written, spawned, raised, exit_code, call>>

\* lines 156-167
MissingDefinition ==
    /\ InLoop
    /\ required[idx] \notin {"contract_validate", "reviewer_subagent"}
    /\ CheckDef(required[idx]).k # "dict"
    /\ report' = [report EXCEPT !.checks =
                     Append(@, Check(required[idx], "failed",
                                     "missing_check_definition", "", 127))]
    /\ idx' = idx + 1
    /\ UNCHANGED <<pc, contract_file, schema_file, changed_files, contract,
                   required, written, spawned, raised, exit_code, call>>

\* line 169: _run_check returned an outcome.
RunCheck ==
    /\ InLoop
    /\ required[idx] \notin {"contract_validate", "reviewer_subagent"}
    /\ CheckDef(required[idx]).k = "dict"
    /\ \E outcome \in Outcomes :
          LET check_def == CheckDef(required[idx])
              res       == _run_check(required[idx], check_def, outcome)
          IN  /\ res.out = "return"
              /\ Spawns(check_def) \/ outcome = Exited(0)
              /\ report' = [report EXCEPT !.checks = Append(@, res.value)]
              /\ spawned' = IF Spawns(check_def)
                            THEN Append(spawned,
                                        [name    |-> required[idx],
                                         command |-> RunCommand(check_def),
                                         timeout |-> RunTimeout(check_def),
                                         ended   |-> outcome])
                            ELSE spawned
    /\ idx' = idx + 1
    /\ UNCHANGED <<pc, contract_file, schema_file, changed_files, contract,
                   required, written, raised, exit_code, call>>

\* line 169: subprocess.run raised TimeoutExpired, which neither _run_check
\* nor main() catches.
RunCheckRaised ==
    /\ InLoop
    /\ required[idx] \notin {"contract_validate", "reviewer_subagent"}
    /\ CheckDef(required[idx]).k = "dict"
    /\ \E outcome \in Outcomes :
          LET check_def == CheckDef(required[idx])
              res       == _run_check(required[idx], check_def, outcome)
          IN  /\ res.out # "return"
              /\ raised' = res.out
              /\ exit_code' = <<ExitStatus(res)>>
              /\ spawned' = Append(spawned,
                                   [name    |-> required[idx],
                                    command |-> RunCommand(check_def),
                                    timeout |-> RunTimeout(check_def),
                                    ended   |-> outcome])
    /\ pc' = "done"
    /\ UNCHANGED <<contract_file, schema_file, changed_files, contract,
                   required, idx, report, written, call>>

\* Drift detection that also saves the report as it stands.
DetectDrift_WritesReport ==
    /\ pc = "loop"
    /\ idx > Len(required)
    /\ LET drift_violations == docs_drift_violations(contract, changed_files)
       IN  report' = IF drift_violations # <<>>
                     THEN [report EXCEPT !.docs_drift =
                              [status |-> "failed", violations |-> drift_violations]]
                     ELSE report
    /\ written' = Append(written, report')
    /\ pc' = "aggregate"
    /\ UNCHANGED <<contract_file, schema_file, changed_files, contract,
                   required, idx, spawned, raised, exit_code, call>>

\* lines 171-176
DetectDrift ==
    /\ pc = "loop"
    /\ idx > Len(required)
    /\ LET drift_violations == docs_drift_violations(contract, changed_files)
       IN  report' = IF drift_violations # <<>>
                     THEN [report EXCEPT !.docs_drift =
                              [status |-> "failed", violations |-> drift_violations]]
                     ELSE report
    /\ pc' = "aggregate"
    /\ UNCHANGED <<contract_file, schema_file, changed_files, contract,
                   required, idx, written, spawned, raised, exit_code, call>>

\* lines 178-180
Aggregate ==
    /\ pc = "aggregate"
    /\ report' = [report EXCEPT !.status = OverallStatus(report)]
    /\ pc' = "write"
    /\ UNCHANGED <<contract_file, schema_file, changed_files, contract,
                   required, idx, written, spawned, raised, exit_code, call>>

\* lines 182-184
WriteReport ==
    /\ pc = "write"
    /\ written' = Append(written, report)
    /\ exit_code' = <<ExitStatus(Returned(IF report.status = "passed" THEN 0 ELSE 1))>>
    /\ pc' = "done"
    /\ UNCHANGED <<contract_file, schema_file, changed_files, contract,
                   required, idx, report, spawned, raised, call>>

Next ==
    \/ Begin
    \/ ContractLoaded
    \/ ContractRejected
    \/ LoadRaised
    \/ Resolve
    \/ SkipSentinel
    \/ Defer
    \/ MissingDefinition
    \/ RunCheck
    \/ RunCheckRaised
    \/ DetectDrift
    \/ Aggregate
    \/ WriteReport

Spec == Init /\ [][Next]_vars

\* ------------------------------------------- direct calls of the functions
\* required_checks_for_files and docs_drift_violations called on any list of
\* changed files (unsorted, with repetitions), outside a gate run.
CallFiles == Files \cup {"README.md"}

CallsInit ==
    /\ pc = "idle"
    /\ contract_file = File("unreadable", None)
    /\ schema_file = File("unreadable", None)
    /\ changed_files = <<>>
    /\ contract = None
    /\ required = <<>>
    /\ idx = 1
    /\ report = NewReport(<<>>)
    /\ written = <<>>
    /\ spawned = <<>>
    /\ raised = ""
    /\ exit_code = <<>>
    /\ \E c \in Contracts, f \in SeqsUpTo(CallFiles, MaxCalls) :
          call = [NoCall EXCEPT !.contract = c, !.files = f]

GateVars == <<pc, contract_file, schema_file, changed_files, contract,
              required, idx, report, written, spawned, raised, exit_code>>

CallResolver ==
    /\ pc = "idle"
    /\ call.fn = ""
    /\ call' = [call EXCEPT !.fn = "required_checks_for_files",
                            !.checks = required_checks_for_files(call.contract,
                                                                 call.files)]
    /\ UNCHANGED GateVars

CallDrift ==
    /\ pc = "idle"
    /\ call.fn = ""
    /\ call' = [call EXCEPT !.fn = "docs_drift_violations",
                            !.violations = docs_drift_violations(call.contract,
                                                                 call.files)]
    /\ UNCHANGED GateVars

NextCalls == CallResolver \/ CallDrift

SpecCalls == CallsInit /\ [][NextCalls]_vars

\* --------------------------------------------- direct calls of the validator
\* The longest list among the values validated.
MaxElems == 2

Atoms == {JInt(0), JInt(1), JBool(TRUE), JBool(FALSE), JStr("x")}

\* The values validated: atoms, dicts over the keys "a" and "b" in either
\* insertion order, lists of atoms, and dicts holding a list.
ValData ==
    Atoms
    \cup {JDict(<<>>)}
    \cup {JDict(<< <<key, v>> >>) : key \in {"a", "b"}, v \in Atoms}
    \cup {JDict(<< <<keys[1], v>>, <<keys[2], w>> >>) :
            keys \in {<<"a", "b">>, <<"b", "a">>}, v \in Atoms, w \in Atoms}
    \cup {JList(s) : s \in SeqsUpTo(Atoms, MaxElems)}
    \cup {JDict(<< <<"a", JList(<<v>>)>>, <<"b", w>> >>) : v \in Atoms, w \in Atoms}

TypeNode(t) == JDict(<< <<"type", JStr(t)>> >>)

\* The schema nodes put under a key or under "items".
LeafSchemas ==
    { TypeNode("integer"),
      JDict(<< <<"type", JStr("integer")>>, <<"minimum", JInt(1)>> >>),
      TypeNode("string"),
      JDict(<< <<"type", JStr("array")>>, <<"items", TypeNode("integer")>> >>),
      TypeNode("text") }

RootLeafSchemas ==
    LeafSchemas
    \cup { JDict(<<>>), TypeNode("number"), TypeNode("boolean"),
           JDict(<< <<"enum", JList(<<JInt(1), JStr("x")>>)>> >>),
           JDict(<< <<"minimum", JInt(1)>> >>),
           JDict(<< <<"enum", JList(<<JInt(1), JStr("x")>>)>>, <<"minimum", JInt(1)>> >>),
           JDict(<< <<"type", JStr("integer")>>,
                    <<"enum", JList(<<JInt(1), JStr("x")>>)>>,
                    <<"minimum", JInt(1)>> >>) }

\* The type and enum keywords of a node for objects or arrays.
NodeHeads ==
    { <<>>, << <<"type", JStr("object")>> >>, << <<"type", JStr("array")>> >>,
      << <<"type", JStr("object")>>, <<"enum", JList(<<JStr("x")>>)>> >> }

RequiredLists ==
    { <<>>, << <<"required", JList(<<JStr("b"), JStr("a")>>)>> >>,
      << <<"required", JList(<<JStr("a")>>)>> >> }

PropertyParts ==
    {<<>>}
    \cup {<< <<"properties", JDict(<< <<"a", la>>, <<"b", lb>> >>)>> >> :
            la \in LeafSchemas, lb \in LeafSchemas}
    \cup {<< <<"properties", JDict(<< <<"a", la>> >>)>>,
             <<"additionalProperties", lb>> >> :
            la \in LeafSchemas, lb \in LeafSchemas}

ObjectSchemas ==
    {JDict(h \o r \o p) : h \in NodeHeads, r \in RequiredLists, p \in PropertyParts}

ArraySchemas ==
    {JDict(h \o m \o i) :
        h \in {<<>>, << <<"type", JStr("array")>> >>, << <<"type", JStr("object")>> >>},
        m \in {<<>>, << <<"minItems", JInt(1)>> >>, << <<"minItems", JInt(2)>> >>},
        i \in {<<>>} \cup {<< <<"items", l>> >> : l \in LeafSchemas}}

ValSchemas == RootLeafSchemas \cup ObjectSchemas \cup ArraySchemas

ValidateInit ==
    /\ pc = "idle"
    /\ contract_file = File("unreadable", None)
    /\ schema_file = File("unreadable", None)
    /\ changed_files = <<>>
    /\ contract = None
    /\ required = <<>>
    /\ idx = 1
    /\ report = NewReport(<<>>)
    /\ written = <<>>
    /\ spawned = <<>>
    /\ raised = ""
    /\ exit_code = <<>>
    /\ \E d \in ValData, s \in ValSchemas :
          call = [NoCall EXCEPT !.data = d, !.schema = s]

\* _validate_against_schema(data, schema) with the default path "$".
CallValidate ==
    /\ pc = "idle"
    /\ call.fn = ""
    /\ call' = [call EXCEPT !.fn = "_validate_against_schema",
                            !.error = _validate_against_schema(call.data, call.schema,
                                                               <<"$">>)]
    /\ UNCHANGED GateVars

NextValidate == CallValidate

SpecValidate == ValidateInit /\ [][NextValidate]_vars

\* ------------------------------------------------------------------ claims
Names(checks) == [i \in DOMAIN checks |-> checks[i].name]
NoDuplicates(seq) == \A i, j \in DOMAIN seq : seq[i] = seq[j] => i = j
Loaded == contract # None
Finished == pc = "done"

\* C1: in every report written by a run whose contract loaded and validated,
\* the overall status is "passed" exactly when no check entry is "failed" and
\* the docs-drift result has no violations, and "failed" otherwise.
C1_OverallStatus ==
    Loaded =>
        \A i \in DOMAIN written :
            LET r == written[i]
            IN  /\ r.status \in {"passed", "failed"}
                /\ r.status = "passed" <=>
                       /\ \A j \in DOMAIN r.checks : r.checks[j].status # "failed"
                       /\ r.docs_drift.violations = <<>>

\* A report with a deferred entry and a passed command was written as passed.
C1_Witness ==
    /\ Loaded /\ Len(written) = 1 /\ written[1].status = "passed"
    /\ \E j \in DOMAIN written[1].checks : written[1].checks[j].status = "deferred"
    /\ spawned # <<>>

\* The gate passed: the contract loaded, every required check other than the
\* sentinel and the deferred one ran a command that exited 0, and the changed
\* files violate no drift rule.
GatePassed ==
    /\ Loaded /\ raised = "" /\ idx > Len(required)
    /\ \A i \in DOMAIN required :
          \/ required[i] \in {"contract_validate", "reviewer_subagent"}
          \/ \E j \in DOMAIN spawned :
                spawned[j].name = required[i] /\ spawned[j].ended = Exited(0)
    /\ docs_drift_violations(contract, changed_files) = <<>>

\* C2: every run ends with exit code 0 or 1; it is 0 exactly when the gate
\* passed, and then the report written has overall status "passed".
C2_ExitCode ==
    /\ ~Finished => exit_code = <<>>
    /\ Finished =>
          /\ exit_code \in {<<0>>, <<1>>}
          /\ exit_code = <<0>> <=> GatePassed
          /\ exit_code = <<0>> => Len(written) = 1 /\ written[1].status = "passed"

\* A run whose commands all exited 0 ended with exit code 0.
C2_Witness ==
    /\ Finished /\ exit_code = <<0>> /\ Len(spawned) >= 2 /\ changed_files # <<>>

\* C3: when load_contract raises ContractValidationError the run writes one
\* report, whose only check entry is a failed contract_validate and whose
\* status is "failed", and returns 1 with no check resolved, no command run
\* and no drift detection.
C3_ValidationFailure ==
    (Finished /\ load_contract(contract_file, schema_file).out = "ContractValidationError")
    => /\ Len(written) = 1
       /\ Names(written[1].checks) = <<"contract_validate">>
       /\ written[1].checks[1].status = "failed"
       /\ written[1].status = "failed"
       /\ written[1].required_checks = <<>>
       /\ written[1].docs_drift = [status |-> "passed", violations |-> <<>>]
       /\ exit_code = <<1>>
       /\ raised = ""
       /\ required = <<>>
       /\ spawned = <<>>

\* A contract with a boolean timeout_sec was rejected for changed files.
C3_Witness ==
    /\ Finished /\ changed_files # <<>>
    /\ LET res == load_contract(contract_file, schema_file)
       IN  res.out = "ContractValidationError" /\ res.error.err = "expected_type"

\* C4: a command that exceeds its timeout yields a "failed" outcome with a
\* timeout reason for its check, and the run does not crash.
C4_TimeoutIsFailedOutcome ==
    \A i \in DOMAIN spawned :
        spawned[i].ended = TimedOut =>
            /\ raised = ""
            /\ \E j \in DOMAIN report.checks :
                  /\ report.checks[j].name = spawned[i].name
                  /\ report.checks[j].status = "failed"
                  /\ report.checks[j].reason = "timeout"

\* C5: in every report written after the contract validated, the names of the
\* check entries are the resolved required-check list, entry for entry, and
\* every entry is passed, failed or deferred.
C5_ReportNames ==
    Loaded =>
        \A i \in DOMAIN written :
            /\ Names(written[i].checks) = written[i].required_checks
            /\ written[i].required_checks =
                   required_checks_for_files(contract, changed_files)
            /\ NoDuplicates(Names(written[i].checks))
            /\ \A j \in DOMAIN written[i].checks :
                  written[i].checks[j].status \in {"passed", "failed", "deferred"}

\* A report with a failed entry followed by other entries, one of them
\* deferred, written for a tier that lists the sentinel.
C5_Witness ==
    /\ Loaded /\ Len(written) = 1 /\ Len(written[1].checks) >= 4
    /\ written[1].checks[2].status = "failed"
    /\ \E j \in DOMAIN written[1].checks : written[1].checks[j].status = "deferred"

\* C6: a check that ends in a failure outcome never aborts the run: once the
\* contract has loaded, the run ends with a written report that holds an
\* outcome for every required check.
C6_FailureNeverAborts ==
    (Finished /\ Loaded) =>
        /\ Len(written) = 1
        /\ Names(written[1].checks) = required

\* C7: the resolver's result begins with "contract_validate", which occurs in
\* it exactly once.
C7_SentinelFirst ==
    call.fn = "required_checks_for_files" =>
        /\ call.checks # <<>>
        /\ call.checks[1] = "contract_validate"
        /\ Cardinality({i \in DOMAIN call.checks :
                           call.checks[i] = "contract_validate"}) = 1

TiersOf(c) == Get(c, "risk_tiers", JList(<<>>)).v
GlobsOf(tier) == StrItems(Get(tier, "path_globs", JList(<<>>)))
ChecksOf(tier) == StrItems(Get(tier, "required_checks", JList(<<>>)))
TierMatches(tier, file) == \E g \in Range(GlobsOf(tier)) : fnmatch(file, g)

\* The resolver was called with a changed file that matches a tier listing
\* the sentinel among its checks.
C7_Witness ==
    /\ call.fn = "required_checks_for_files"
    /\ Len(call.checks) >= 3
    /\ \E t \in DOMAIN TiersOf(call.contract), f \in DOMAIN call.files :
          /\ TierMatches(TiersOf(call.contract)[t], call.files[f])
          /\ "contract_validate" \in Range(ChecksOf(TiersOf(call.contract)[t]))

\* The places <<file, tier, position>> at which the resolver meets check c.
Seen(c) ==
    LET positions == UNION {DOMAIN ChecksOf(t) : t \in Range(TiersOf(call.contract))}
    IN  {o \in (DOMAIN call.files) \X (DOMAIN TiersOf(call.contract)) \X positions :
            LET tier == TiersOf(call.contract)[o[2]]
            IN  /\ TierMatches(tier, call.files[o[1]])
                /\ o[3] \in DOMAIN ChecksOf(tier)
                /\ ChecksOf(tier)[o[3]] = c}

Earlier(o, q) ==
    \/ o[1] < q[1]
    \/ o[1] = q[1] /\ o[2] < q[2]
    \/ o[1] = q[1] /\ o[2] = q[2] /\ o[3] < q[3]

FirstSeen(c) ==
    IF c = "contract_validate" THEN <<0, 0, 0>>
    ELSE CHOOSE o \in Seen(c) : \A q \in Seen(c) \ {o} : Earlier(o, q)

\* C8: the resolver's result has no duplicates, holds beyond the sentinel
\* exactly the checks of the tiers that match some changed file, and lists
\* them in the order in which the scan (files, then tiers, then the tier's
\* checks) first meets them.
C8_ResolverResult ==
    call.fn = "required_checks_for_files" =>
        /\ NoDuplicates(call.checks)
        /\ Range(call.checks) =
               {"contract_validate"} \cup
               UNION {Range(ChecksOf(TiersOf(call.contract)[t])) :
                        t \in {u \in DOMAIN TiersOf(call.contract) :
                                 \E f \in DOMAIN call.files :
                                    TierMatches(TiersOf(call.contract)[u],
                                                call.files[f])}}
        /\ \A i, j \in DOMAIN call.checks :
              i < j => Earlier(FirstSeen(call.checks[i]), FirstSeen(call.checks[j]))

\* One changed file matched two different tiers, the first of them by its
\* second glob only, and both contributed.
C8_Witness ==
    /\ call.fn = "required_checks_for_files"
    /\ call.files = <<"api/r.py">>
    /\ call.checks = <<"contract_validate", "lint", "test", "ghost">>

MustUpdate(rule) == StrItems(Get(rule, "must_update", JList(<<>>)))
RuleGlob(rule) == Get(rule, "path_glob", JStr("")).v

\* C9: the detector emits a violation for a rule exactly when a changed file
\* matches its glob and must_update minus the changed files is not empty; the
\* missing list is that difference, without duplicates and without changed
\* documents.
C9_DriftViolations ==
    call.fn = "docs_drift_violations" =>
        LET rules == Get(call.contract, "docs_drift_rules", JList(<<>>)).v
            changed == Range(call.files)
            Violated(rule) ==
                /\ \E f \in changed : fnmatch(f, RuleGlob(rule))
                /\ Range(MustUpdate(rule)) \ changed # {}
            violated == SelectSeq(rules, Violated)
        IN  /\ Len(call.violations) = Len(violated)
            /\ \A i \in DOMAIN call.violations :
                  /\ call.violations[i].path_glob = RuleGlob(violated[i])
                  /\ Range(call.violations[i].missing) =
                         Range(MustUpdate(violated[i])) \ changed
                  /\ NoDuplicates(call.violations[i].missing)

\* C10: a drift violation makes the status "failed" and the exit code 1, and
\* whatever the drift result and whatever the checks' outcomes, the run ends
\* with every required check recorded and the violations reported.
C10_DriftAndChecks ==
    (Finished /\ Loaded) =>
        /\ Len(written) = 1
        /\ Names(written[1].checks) = required
        /\ written[1].docs_drift.violations =
               docs_drift_violations(contract, changed_files)
        /\ written[1].docs_drift.violations # <<>> =>
               written[1].status = "failed" /\ exit_code = <<1>>


\* The required checks main() has gone through, by position: the entry of
\* required[i] is report.checks[i].
Processed == IF Loaded THEN {i \in DOMAIN required : i < idx} ELSE {}
Reserved == {"contract_validate", "reviewer_subagent"}
SpawnedFor(name) == \E j \in DOMAIN spawned : spawned[j].name = name

\* C11: a required check with no definition in the checks mapping is recorded
\* as failed, exit code 127, reason missing_check_definition; one whose
\* definition has no command, an empty one or only whitespace is recorded as
\* failed, exit code 127, reason missing_command; no subprocess is spawned
\* for either.
C11_NotExecutable ==
    \A i \in Processed :
        LET name == required[i]
            def  == Get(Get(contract, "checks", JDict(<<>>)), name, None)
            cmd  == IF def.k = "dict" /\ HasKey(def, "command")
                    THEN Chars[Get(def, "command", None).v] ELSE <<>>
        IN  name \notin Reserved =>
               /\ def.k # "dict" =>
                     /\ report.checks[i] =
                            Check(name, "failed", "missing_check_definition", "", 127)
                     /\ ~SpawnedFor(name)
               /\ (def.k = "dict" /\ \A c \in Range(cmd) : c = " ") =>
                     /\ report.checks[i] =
                            Check(name, "failed", "missing_command", "", 127)
                     /\ ~SpawnedFor(name)

\* One run recorded a check without definition, one with a whitespace-only
\* command and one without command.
C11_Witness ==
    /\ Finished /\ Len(written) = 1
    /\ \E i, j, l \in DOMAIN written[1].checks :
          /\ written[1].checks[i].reason = "missing_check_definition"
          /\ written[1].checks[j].reason = "missing_command"
          /\ written[1].checks[l].reason = "missing_command"
          /\ j # l


Validated == call.fn = "_validate_against_schema"
IsIntegerNode(s) == s.k = "dict" /\ Get(s, "type", None) = JStr("integer")
BoolForInteger == <<"integer", "boolean">>

\* The schema node the validator applies to the value under `key` of a dict.
ChildSchema(schema, key) ==
    LET properties == Get(schema, "properties", JDict(<<>>))
        additional == Get(schema, "additionalProperties", None)
    IN  IF HasKey(properties, key) THEN Get(properties, key, None)
        ELSE IF additional.k = "dict" THEN additional ELSE None

\* The type error for `value` at a node of type integer, at `path`.
IntegerVerdict(value, path) ==
    /\ value.k = "bool" =>
          /\ ~call.error.ok
          /\ call.error.path = path =>
                call.error.err = "expected_type" /\ call.error.what = BoolForInteger
    /\ value.k = "int" =>
          ~(call.error.path = path /\ call.error.err = "expected_type")

\* C12: at a node of type integer, True and False are rejected with a type
\* error at the node's path, and an int is never rejected by the type check;
\* at the root, under a key and under "items".
C12_BoolIsNotInteger ==
    Validated =>
        /\ IsIntegerNode(call.schema) =>
              /\ IntegerVerdict(call.data, <<"$">>)
              /\ call.data.k = "bool" => call.error.path = <<"$">>
        /\ call.data.k = "dict" =>
              \A i \in DOMAIN call.data.v :
                  IsIntegerNode(ChildSchema(call.schema, call.data.v[i][1])) =>
                      IntegerVerdict(call.data.v[i][2], <<"$", call.data.v[i][1]>>)
        /\ call.data.k = "list" =>
              \A i \in DOMAIN call.data.v :
                  IsIntegerNode(Get(call.schema, "items", None)) =>
                      IntegerVerdict(call.data.v[i], <<"$", IdxSeg[i]>>)

\* True under key "b", whose node has type integer, was rejected at $.b, the
\* int under "a" having passed.
C12_Witness ==
    /\ Validated
    /\ call.data = JDict(<< <<"a", JInt(1)>>, <<"b", JBool(TRUE)>> >>)
    /\ IsIntegerNode(ChildSchema(call.schema, "a"))
    /\ call.error = ContractValidationError(<<"$", "b">>, "expected_type", BoolForInteger)


KeysOf(d) == {d.v[i][1] : i \in DOMAIN d.v}
RequiredOf(schema) == StrItems(Get(schema, "required", JList(<<>>)))
AbsentKeys(data, schema) ==
    {i \in DOMAIN RequiredOf(schema) : RequiredOf(schema)[i] \notin KeysOf(data)}
FirstAbsent(data, schema) ==
    RequiredOf(schema)[CHOOSE i \in AbsentKeys(data, schema) :
                          \A j \in AbsentKeys(data, schema) : i <= j]
MissingKeyError(data, schema) ==
    ContractValidationError(<<"$">>, "missing_required_key", <<FirstAbsent(data, schema)>>)

\* The node constrains nothing but the required keys (and the type object).
OnlyRequired(schema) ==
    /\ KeysOf(schema) \subseteq {"required", "type"}
    /\ HasKey(schema, "type") => Get(schema, "type", None) = JStr("object")

\* The node's own type and enum checks accept the dict: type is absent or
\* "object", enum is absent or holds the value.
NodeAcceptsDict(data, schema) ==
    /\ HasKey(schema, "type") => Get(schema, "type", None) = JStr("object")
    /\ HasKey(schema, "enum") =>
          \E i \in DOMAIN Get(schema, "enum", None).v : Get(schema, "enum", None).v[i] = data

RequiredCase ==
    Validated /\ call.data.k = "dict" /\ HasKey(call.schema, "required")

\* C13 as stated: for every dict and every node with a required list, an
\* absent key makes validation fail with the error naming the first absent
\* key; with all keys present and no other constraint validation passes.
C13_AsStated ==
    RequiredCase =>
        /\ AbsentKeys(call.data, call.schema) # {} =>
              call.error = MissingKeyError(call.data, call.schema)
        /\ (AbsentKeys(call.data, call.schema) = {} /\ OnlyRequired(call.schema)) =>
              call.error.ok

\* C13 amended: an absent key always makes validation fail; the error names
\* the first absent key when the node's type and enum checks accept the dict.
C13_RequiredKeys ==
    RequiredCase =>
        /\ AbsentKeys(call.data, call.schema) # {} =>
              /\ ~call.error.ok
              /\ NodeAcceptsDict(call.data, call.schema) =>
                    call.error = MissingKeyError(call.data, call.schema)
        /\ (AbsentKeys(call.data, call.schema) = {} /\ OnlyRequired(call.schema)) =>
              call.error.ok

\* A dict holding "a" only was validated against required [b, a] with typed
\* properties, and the error names "b".
C13_Witness ==
    /\ RequiredCase
    /\ KeysOf(call.data) = {"a"}
    /\ RequiredOf(call.schema) = <<"b", "a">>
    /\ HasKey(call.schema, "properties")
    /\ call.error = ContractValidationError(<<"$">>, "missing_required_key", <<"b">>)


RECURSIVE HasUnknownType(_)
\* The schema document holds a node whose "type" is none of the six kinds.
HasUnknownType(schema) ==
    /\ schema.k = "dict"
    /\ \/ /\ HasKey(schema, "type")
          /\ Get(schema, "type", None).k = "str"
          /\ Get(schema, "type", None).v \notin SchemaTypes
       \/ \E i \in DOMAIN schema.v : HasUnknownType(schema.v[i][2])

LoadDecided == pc \notin {"start", "load"}

\* C14: under a schema holding a node of an unknown type, loading fails for
\* every readable contract document, whatever its content, and no check is
\* run: the gate ends with the failed contract_validate report.
C14_UnknownTypeRejected ==
    ( /\ LoadDecided
      /\ schema_file.st = "json"
      /\ HasUnknownType(schema_file.doc)
      /\ contract_file.st = "json" ) =>
        /\ ~Loaded
        /\ spawned = <<>>
        /\ pc = "done"
        /\ report.checks = <<Check("contract_validate", "failed", "",
                                   "schema-validate", 1)>>


LoadFailed == load_contract(contract_file, schema_file).out # "return"

\* C15: every failure to load the contract or the schema (unreadable file,
\* invalid content, non-object root, non-conforming contract) ends the run
\* with a written report whose contract_validate entry is failed and with
\* return value 1, never with an uncaught exception.
C15_LoadFailureReported ==
    (Finished /\ LoadFailed) =>
        /\ raised = ""
        /\ Len(written) = 1
        /\ written[1].status = "failed"
        /\ written[1].checks = <<Check("contract_validate", "failed", "",
                                       "schema-validate", 1)>>
        /\ exit_code = <<1>>


Deferred == Check("reviewer_subagent", "deferred", "", "handled_by_factory_loop", 0)

\* C16: every required check named reviewer_subagent that the loop has
\* handled is recorded as deferred with exit code 0 and no subprocess is
\* spawned under that name, whether or not the contract's checks mapping
\* defines a command for it.
C16_AlwaysDeferred ==
    \A i \in Processed :
        required[i] = "reviewer_subagent" =>
            /\ report.checks[i] = Deferred
            /\ ~SpawnedFor("reviewer_subagent")

\* A finished run deferred reviewer_subagent although the checks mapping
\* defines a command for it.
C16_Witness ==
    /\ Finished /\ Len(written) = 1
    /\ \E i \in DOMAIN required :
          /\ required[i] = "reviewer_subagent"
          /\ written[1].checks[i] = Deferred
    /\ Get(Get(contract, "checks", JDict(<<>>)), "reviewer_subagent", None)
          = Command("review")


\* C17: the report is written at most once and only by the step that ends
\* the run; after a successful load the written report has an outcome for
\* every required check, the result of drift detection and the computed
\* overall status; at every earlier point of a run (where an interrupt
\* would stop it) nothing has been written.
C17_WrittenOnceAtEnd ==
    /\ Len(written) <= 1
    /\ pc # "done" => written = <<>>
    /\ written # <<>> =>
          /\ exit_code # <<>>
          /\ written[1] = report
    /\ (written # <<>> /\ Loaded) =>
          /\ idx > Len(required)
          /\ Len(written[1].checks) = Len(required)
          /\ \A i \in DOMAIN required : written[1].checks[i].name = required[i]
          /\ written[1].docs_drift.violations
                = docs_drift_violations(contract, changed_files)
          /\ written[1].status = OverallStatus(written[1])

\* A run of three required checks with a spawned command and a drift
\* violation wrote its report.
C17_Witness ==
    /\ Finished /\ Loaded /\ Len(written) = 1
    /\ Len(required) >= 3
    /\ spawned # <<>>
    /\ written[1].docs_drift.violations # <<>>


RunComplete ==
    /\ Loaded
    /\ pc \in {"write", "done"}
    /\ idx > Len(required)
    /\ Len(report.checks) = Len(required)
    /\ report.docs_drift.violations = docs_drift_violations(contract, changed_files)

\* C19: the report's status is "failed" at every point before the final
\* aggregation; a report with status "passed", in memory or written, exists
\* only after a complete run; the report written when the contract is
\* rejected has status "failed", no required checks and a passed docs_drift
\* without violations.
C19_FailedUntilAggregated ==
    /\ pc \notin {"write", "done"} => report.status = "failed"
    /\ report.status = "passed" => RunComplete
    /\ \A i \in DOMAIN written : written[i].status = "passed" => RunComplete
    /\ (~Loaded /\ written # <<>>) =>
          /\ written[1].status = "failed"
          /\ written[1].required_checks = <<>>
          /\ written[1].docs_drift = [status |-> "passed", violations |-> <<>>]

\* A complete run of three required checks ended with a passed report.
C19_Witness ==
    /\ Finished /\ Len(written) = 1
    /\ written[1].status = "passed"
    /\ Len(required) >= 3
    /\ spawned # <<>>


\* What each keyword of a node demands of a value, stated on its own.
Accepts ==
    [object  |-> {"dict"}, array |-> {"list"}, string |-> {"str"},
     integer |-> {"int"}, number |-> {"int", "bool", "float"}, boolean |-> {"bool"}]
TypeOf(schema) == Get(schema, "type", None)
TypeBad(data, schema) ==
    /\ HasKey(schema, "type")
    /\ TypeOf(schema).v \notin SchemaTypes \/ data.k \notin Accepts[TypeOf(schema).v]
EnumBad(data, schema) ==
    /\ HasKey(schema, "enum")
    /\ \A i \in DOMAIN Get(schema, "enum", None).v :
          ~PyEq(Get(schema, "enum", None).v[i], data)
MinimumBad(data, schema) ==
    /\ HasKey(schema, "minimum")
    /\ data.k \in {"int", "bool"}
    /\ Num(data) < Get(schema, "minimum", None).v
RequiredBad(data, schema) ==
    data.k = "dict" /\ AbsentKeys(data, schema) # {}
MinItemsBad(data, schema) ==
    /\ data.k = "list"
    /\ HasKey(schema, "minItems")
    /\ Len(data.v) < Get(schema, "minItems", None).v

\* The verdict on the i-th value of a dict, and on the i-th element of a list,
\* each validated on its own under its path.
ChildVerdict(data, schema, i) ==
    IF ChildSchema(schema, data.v[i][1]).k = "dict"
    THEN _validate_against_schema(data.v[i][2], ChildSchema(schema, data.v[i][1]),
                                  <<"$", data.v[i][1]>>)
    ELSE NoError
ElemVerdict(data, schema, i) ==
    IF Get(schema, "items", None).k = "dict"
    THEN _validate_against_schema(data.v[i], Get(schema, "items", None),
                                  <<"$", IdxSeg[i]>>)
    ELSE NoError
FailingChildren(data, schema) ==
    IF data.k = "dict" THEN {i \in DOMAIN data.v : ~ChildVerdict(data, schema, i).ok}
    ELSE {}
FailingElems(data, schema) ==
    IF data.k = "list" THEN {i \in DOMAIN data.v : ~ElemVerdict(data, schema, i).ok}
    ELSE {}
Least(S) == CHOOSE i \in S : \A j \in S : i <= j

TypeError(data, schema) ==
    IF TypeOf(schema).v \notin SchemaTypes
    THEN ContractValidationError(<<>>, "unsupported_schema_type", <<TypeOf(schema).v>>)
    ELSE ContractValidationError(<<"$">>, "expected_type",
            <<TypeOf(schema).v, IF TypeOf(schema).v = "integer" /\ data.k = "bool"
                                THEN "boolean" ELSE data.k>>)

\* The one error a call reports: the first in the order type, enum, minimum,
\* required keys, values in key order, minItems, elements in index order.
FirstError(data, schema) ==
    CASE TypeBad(data, schema)     -> TypeError(data, schema)
      [] EnumBad(data, schema)     ->
            ContractValidationError(<<"$">>, "not_in_enum", <<>>)
      [] MinimumBad(data, schema)  ->
            ContractValidationError(<<"$">>, "lower_than_minimum", <<>>)
      [] RequiredBad(data, schema) -> MissingKeyError(data, schema)
      [] FailingChildren(data, schema) # {} ->
            ChildVerdict(data, schema, Least(FailingChildren(data, schema)))
      [] MinItemsBad(data, schema) ->
            ContractValidationError(<<"$">>, "too_few_items", <<>>)
      [] FailingElems(data, schema) # {} ->
            ElemVerdict(data, schema, Least(FailingElems(data, schema)))
      [] OTHER -> NoError

\* C18: a call reports exactly one error, the first met in the order type,
\* enum, minimum, required keys, values of the dict in key order, minItems,
\* elements in index order: a failure of the node itself comes before any
\* failure inside its children, and one in an earlier key or element before
\* one in a later key or element; without any failure the call returns.
C18_FailFastOrder ==
    Validated => call.error = FirstError(call.data, call.schema)

\* A dict lacks a required key and holds, under its first key, a value its
\* schema rejects: the missing key is what the call reported.
C18_Witness ==
    /\ Validated
    /\ RequiredBad(call.data, call.schema)
    /\ 1 \in FailingChildren(call.data, call.schema)
    /\ ~TypeBad(call.data, call.schema) /\ ~EnumBad(call.data, call.schema)
    /\ call.error.err = "missing_required_key"

====
